---- MODULE Spec2Model ----
(***************************************************************************)
(* The passkey wallet connector of src/connectors/passkeys-connector.ts.   *)
(*                                                                         *)
(* The connector is one closure holding kernelClient and kernelAccount.    *)
(* Its operations are async functions: a call runs synchronously up to its *)
(* first await, and every await is a point where another call may run.     *)
(* A call in flight is a task; its pc names the await it is suspended at.  *)
(* A step resumes one task: it performs the awaited operation (a store     *)
(* read, write or delete, a WebAuthn ceremony, an SDK build step), whose   *)
(* outcome (success or a thrown error) is chosen by the environment, and   *)
(* then runs the code that follows up to the next await or the return.     *)
(***************************************************************************)
EXTENDS Integers, Sequences, FiniteSets, Bags, TLC

\* Calls that may be in flight at once.
MaxTasks == 2

\* Under SpecQueries: the connector calls (setup, connect, disconnect,
\* reconnect, switchChain) that may be in flight at once beside the queries
\* and provider requests.
MaxCallsBesideQueries == 1

\* config.chains (src/config.ts:11): sepolia is chains[0].
Chains == <<"sepolia", "polygonAmoy">>

ChainIds == {Chains[i] : i \in 1..Len(Chains)}

\* The chainId arguments tried for connect({ chainId }): absent, a configured
\* chain other than chains[0], and an id that is not configured.
ConnectArgs == {"undefined", "polygonAmoy", "unsupported"}

\* The chainId arguments tried for switchChain({ chainId }): each configured
\* chain and an id that is not configured.
SwitchArgs == ChainIds \cup {"unsupported"}

\* WebAuthn credentials the relying party can hand out.
Keys == {"k1", "k2"}

\* The requests tried on a provider object: a method other than
\* eth_sendTransaction, and eth_sendTransaction without a params array, with
\* a transaction without `to`, without `data`, and with both.
RequestArgs == {"other method", "no params", "no to", "no data", "valid"}

\* Hashes the bundler can give to a submitted user operation.
UserOps == {"u1", "u2"}

\* receipt.receipt.transactionHash of the receipt of user operation h (line 230).
TransactionHash(h) == <<"tx", h>>

\* options.projectId, and the store keys the connector derives from it
\* (lines 32-33).
projectId == "projectId"

webAuthnStorageKey == <<"hw-webauthn-", projectId>>

passkeyNameStorageKey == <<"hw-passkey-name-", projectId>>

\* The default passkey name (line 25) and the literal connect passes to
\* createPasskeyOwner (line 161).
displayName == "My Wallet"

username == "username"

\* The smart account address is derived from the credential alone.
AddressOf(k) == <<"address", k>>

\* The accounts arguments tried for onAccountsChanged(accounts): no account
\* and one account.
AccountsArgs == {<<>>, <<AddressOf("k1")>>}

NoAccount == [address |-> <<>>, chain |-> "undefined"]

NoClient == [account |-> NoAccount, chain |-> "undefined"]

NoRet == [accounts |-> <<>>, chainId |-> "undefined"]

\* A task: the call (op, arg), the await it is suspended at (pc), its locals
\* (got: what its read of webAuthnStorageKey gave; key: its webAuthnKey;
\* chain: the chain its build resolved; for a provider request, key and
\* chain are those of the account that encodes), and what it has done so far: the
\* events it emitted, the ceremonies it started, the store keys it wrote or
\* deleted, the assignments it made to kernelAccount and kernelClient, and,
\* for a provider request, the steps it has started (did) and the hash of
\* the user operation it submitted (userOp).
BlankTask ==
    [op |-> "idle", arg |-> "undefined", pc |-> "idle", got |-> "unread",
     key |-> "undefined", chain |-> "undefined", evs |-> <<>>, logins |-> 0,
     regs |-> 0, wrote |-> {}, mut |-> {}, did |-> <<>>, userOp |-> "undefined"]

NoCall ==
    [op |-> "none", arg |-> "undefined", ok |-> FALSE, err |-> "none",
     ret |-> NoRet, got |-> "unread", key |-> "undefined", evs |-> <<>>,
     logins |-> 0, regs |-> 0, wrote |-> {}, mut |-> {}, did |-> <<>>,
     userOp |-> "undefined"]

VARIABLES
    kernelClient,   \* line 28
    kernelAccount,  \* line 29
    idb,            \* the idb-keyval store: the two keys of lines 32-33
    tasks,          \* the calls in flight, a bag of task records
    last,           \* what the step just taken returned to its caller
    fresh,          \* no operation has been called on this instance yet
    provider,       \* getProvider() has handed out a provider object (line 203)
    hostView        \* the last connect or disconnect event config.emitter delivered

vars == <<kernelClient, kernelAccount, idb, tasks, last, fresh, provider, hostView>>

\* config.chains.find((c) => c.id === chainId)
FindChain(chainId) == IF chainId \in ChainIds THEN chainId ELSE "undefined"

\* Bug variant for C6: the build ignores the requested chain and uses chains[0].
ResolveChain_AlwaysFirst(chainId) == Chains[1]

\* config.chains.find((c) => c.id === chainId) || config.chains[0]
ResolveChain(chainId) ==
    IF FindChain(chainId) # "undefined" THEN FindChain(chainId) ELSE Chains[1]

\* kernelClient && kernelAccount
HasSession == kernelClient # NoClient /\ kernelAccount # NoAccount

\* getAccounts(): the account's address, or nothing.
GetAccounts == IF kernelAccount # NoAccount THEN <<kernelAccount.address>> ELSE <<>>

\* getChainId(): throws without a client.
GetChainId == IF kernelClient = NoClient THEN "throws" ELSE kernelClient.chain

\* isAuthorized(), when its store read succeeds.
IsAuthorized == HasSession \/ idb.webAuthn # "undefined"

ConnectEvent(res) == [type |-> "connect", accounts |-> res.accounts, chainId |-> res.chainId]

DisconnectEvent == [type |-> "disconnect", accounts |-> <<>>, chainId |-> "undefined"]

ChangeEvent(chainId) == [type |-> "change", accounts |-> <<>>, chainId |-> chainId]

\* What the host holds after config.emitter.emit delivered evs: connect and
\* disconnect events replace its view, change events leave it.
HostSees(view, evs) ==
    IF evs # <<>> /\ evs[Len(evs)].type \in {"connect", "disconnect"}
    THEN evs[Len(evs)].type
    ELSE view

NewTask(op, arg, pc) == [BlankTask EXCEPT !.op = op, !.arg = arg, !.pc = pc]

Completed(rec, ok, err, ret) ==
    [op |-> rec.op, arg |-> rec.arg, ok |-> ok, err |-> err, ret |-> ret,
     got |-> rec.got, key |-> rec.key, evs |-> rec.evs, logins |-> rec.logins, regs |-> rec.regs,
     wrote |-> rec.wrote, mut |-> rec.mut, did |-> rec.did, userOp |-> rec.userOp]

\* Another call may be started.
HasFreeSlot == BagCardinality(tasks) < MaxTasks

\* A call runs to its first await: a new task.
Spawn(rec) ==
    /\ tasks' = tasks (+) SetToBag({rec})
    /\ last' = NoCall
    /\ UNCHANGED hostView

\* Task t runs to its next await as rec: nothing is returned yet.
Suspend(t, rec) ==
    /\ tasks' = (tasks (-) SetToBag({t})) (+) SetToBag({rec})
    /\ last' = NoCall
    /\ UNCHANGED hostView

\* Task t, now rec, returns (ok) or rejects (not ok); the event it emits on
\* its way out, if any, reaches the host.
Return(t, rec, ok, err, ret) ==
    /\ tasks' = tasks (-) SetToBag({t})
    /\ last' = Completed(rec, ok, err, ret)
    /\ hostView' = HostSees(hostView, rec.evs)

Init ==
    /\ kernelClient = NoClient
    /\ kernelAccount = NoAccount
    /\ idb = [webAuthn |-> "undefined", passkeyName |-> "undefined"]
    /\ tasks = EmptyBag
    /\ last = NoCall
    /\ fresh = TRUE
    /\ provider = FALSE
    /\ hostView = "none"

\* A page load: createConnector builds a new closure over the same store;
\* provider objects of the old closure are gone with it, and the host
\* starts with no event seen.
Reload ==
    /\ kernelClient' = NoClient
    /\ kernelAccount' = NoAccount
    /\ tasks' = EmptyBag
    /\ last' = NoCall
    /\ fresh' = TRUE
    /\ provider' = FALSE
    /\ hostView' = "none"
    /\ UNCHANGED idb

(***************************************************************************)
(* createKernelAccountAndClient (lines 35-93).  The caller's step runs its *)
(* synchronous start (the chain lookup of line 36 and the public client)   *)
(* and suspends at the awaits of the build.                                *)
(***************************************************************************)
StartBuild(t, rec, webAuthnKey, chainId) ==
    Suspend(t, [rec EXCEPT !.pc = "b_account", !.key = webAuthnKey,
                           !.chain = ResolveChain(chainId)])

\* A build step threw.  setup catches (line 141); connect, reconnect and
\* switchChain let the error reach their caller.
BuildThrow(t, rec) ==
    IF rec.op = "setup"
    THEN Suspend(t, [rec EXCEPT !.pc = "s_del1"])
    ELSE Return(t, rec, FALSE, "BuildFailed", NoRet)

\* What the caller does with the build's result: setup, connect and reconnect
\* emit connect (lines 139, 166, 184); switchChain emits change (line 255).
BuildDone(t, rec, result) ==
    CASE rec.op = "setup" ->
           Return(t, [rec EXCEPT !.evs = Append(@, ConnectEvent(result))], TRUE, "none", NoRet)
      [] rec.op = "switchChain" ->
           Return(t, [rec EXCEPT !.evs = Append(@, ChangeEvent(rec.arg))], TRUE, "none",
                  [accounts |-> <<>>, chainId |-> FindChain(rec.arg)])
      [] OTHER ->
           Return(t, [rec EXCEPT !.evs = Append(@, ConnectEvent(result))], TRUE, "none", result)

\* The account createKernelAccount resolves to.
NewAccount(rec) == [address |-> AddressOf(rec.key), chain |-> rec.chain]

\* Lines 46-92.  The awaits of lines 46, 53 and 60 read and write nothing the
\* connector shares, so the three are one step, which throws with nothing
\* assigned if any of them rejects.  kernelAccount is assigned when
\* createKernelAccount resolves (line 60); createKernelAccountClient is then
\* called synchronously (line 66) and kernelClient assigned, unless it throws.
BuildAccount(t) ==
    /\ t.pc = "b_account"
    /\ UNCHANGED <<idb, fresh, provider>>
    /\ LET rec == t
           acc == NewAccount(rec)
       IN \/ /\ kernelAccount' = acc
             /\ kernelClient' = [account |-> acc, chain |-> rec.chain]
             /\ BuildDone(t, [rec EXCEPT !.mut = @ \cup {"account", "client"}],
                          [accounts |-> <<acc.address>>, chainId |-> rec.chain])
          \/ /\ kernelAccount' = acc
             /\ UNCHANGED kernelClient
             /\ BuildThrow(t, [rec EXCEPT !.mut = @ \cup {"account"}])
          \/ /\ UNCHANGED <<kernelClient, kernelAccount>>
             /\ BuildThrow(t, rec)

(***************************************************************************)
(* setup (lines 134-145)                                                   *)
(***************************************************************************)
CallSetup ==
    /\ fresh
    /\ HasFreeSlot
    /\ Spawn(NewTask("setup", "undefined", "s_get"))
    /\ fresh' = FALSE
    /\ UNCHANGED provider
    /\ UNCHANGED <<kernelClient, kernelAccount, idb>>

\* Bug variant for C12: setup asks for the passkey again although a
\* credential is stored.
SetupGet_AsksAgain(t) ==
    /\ t.pc = "s_get"
    /\ UNCHANGED <<kernelClient, kernelAccount, idb, fresh, provider>>
    /\ \/ /\ idb.webAuthn # "undefined" /\ kernelClient = NoClient /\ kernelAccount = NoAccount
          /\ Suspend(t, [t EXCEPT !.pc = "p_login", !.logins = @ + 1, !.got = idb.webAuthn])
       \/ /\ ~(idb.webAuthn # "undefined" /\ kernelClient = NoClient /\ kernelAccount = NoAccount)
          /\ Return(t, [t EXCEPT !.got = idb.webAuthn], TRUE, "none", NoRet)
       \/ Suspend(t, [t EXCEPT !.pc = "s_del1", !.got = "read failed"])

\* await get(webAuthnStorageKey) (line 136) and the test of line 137.
SetupGet(t) ==
    /\ t.pc = "s_get"
    /\ UNCHANGED <<kernelClient, kernelAccount, idb, fresh, provider>>
    /\ \/ /\ idb.webAuthn # "undefined" /\ kernelClient = NoClient /\ kernelAccount = NoAccount
          /\ StartBuild(t, [t EXCEPT !.got = idb.webAuthn], idb.webAuthn, "undefined")
       \/ /\ ~(idb.webAuthn # "undefined" /\ kernelClient = NoClient /\ kernelAccount = NoAccount)
          /\ Return(t, [t EXCEPT !.got = idb.webAuthn], TRUE, "none", NoRet)
       \/ Suspend(t, [t EXCEPT !.pc = "s_del1", !.got = "read failed"])

\* await del(webAuthnStorageKey) in the catch (line 142).
SetupDel1(t) ==
    /\ t.pc = "s_del1"
    /\ UNCHANGED <<kernelClient, kernelAccount, fresh, provider>>
    /\ \/ /\ idb' = [idb EXCEPT !.webAuthn = "undefined"]
          /\ Suspend(t, [t EXCEPT !.pc = "s_del2", !.wrote = @ \cup {"del webAuthn"}])
       \/ /\ UNCHANGED idb
          /\ Return(t, t, FALSE, "StorageError", NoRet)

\* await del(passkeyNameStorageKey) in the catch (line 143).
SetupDel2(t) ==
    /\ t.pc = "s_del2"
    /\ UNCHANGED <<kernelClient, kernelAccount, fresh, provider>>
    /\ \/ /\ idb' = [idb EXCEPT !.passkeyName = "undefined"]
          /\ Return(t, [t EXCEPT !.wrote = @ \cup {"del passkeyName"}], TRUE, "none", NoRet)
       \/ /\ UNCHANGED idb
          /\ Return(t, t, FALSE, "StorageError", NoRet)

(***************************************************************************)
(* connect (lines 147-168) and createPasskeyOwner (lines 95-127)           *)
(***************************************************************************)
\* Lines 149-153: what connect returns when a session already exists.
ConnectExisting(chainId) ==
    [accounts |-> <<kernelAccount.address>>, chainId |-> ResolveChain(chainId)]

CallConnect(chainId) ==
    /\ fresh' = FALSE
    /\ UNCHANGED provider
    /\ UNCHANGED <<kernelClient, kernelAccount, idb>>
    /\ \/ /\ HasSession
          /\ UNCHANGED tasks
          /\ UNCHANGED hostView
          /\ last' = Completed(NewTask("connect", chainId, "idle"), TRUE, "none",
                               ConnectExisting(chainId))
       \/ /\ ~HasSession
          /\ HasFreeSlot
          /\ Spawn(NewTask("connect", chainId, "c_get"))

\* createPasskeyOwner starts: toWebAuthnKey in LOGIN mode is called (line 97).
StartLogin(t, rec) ==
    Suspend(t, [rec EXCEPT !.pc = "p_login", !.logins = @ + 1])

\* The catch of line 110 is entered: set(passkeyNameStorageKey, username) is called.
StartRegisterPath(t, rec) ==
    Suspend(t, [rec EXCEPT !.pc = "p_setname_reg"])

\* Bug variant for C3: the ceremony starts whatever the read gave.
ConnectGet_AlwaysCeremony(t) ==
    /\ t.pc = "c_get"
    /\ UNCHANGED <<kernelClient, kernelAccount, idb, fresh, provider>>
    /\ \/ StartLogin(t, [t EXCEPT !.got = idb.webAuthn])
       \/ StartLogin(t, [t EXCEPT !.got = "read failed"])

\* Bug variant for C23: a failed read of the credential makes connect reject.
ConnectGet_ReadFailureRejects(t) ==
    /\ t.pc = "c_get"
    /\ UNCHANGED <<kernelClient, kernelAccount, idb, fresh, provider>>
    /\ \/ /\ idb.webAuthn # "undefined"
          /\ StartBuild(t, [t EXCEPT !.got = idb.webAuthn], idb.webAuthn, t.arg)
       \/ /\ idb.webAuthn = "undefined"
          /\ StartLogin(t, [t EXCEPT !.got = "undefined"])
       \/ Return(t, [t EXCEPT !.got = "read failed"], FALSE, "StorageError", NoRet)

\* await get(webAuthnStorageKey) (line 158); a missing key throws into the
\* same catch as a failed read (lines 159-161).
ConnectGet(t) ==
    /\ t.pc = "c_get"
    /\ UNCHANGED <<kernelClient, kernelAccount, idb, fresh, provider>>
    /\ \/ /\ idb.webAuthn # "undefined"
          /\ StartBuild(t, [t EXCEPT !.got = idb.webAuthn], idb.webAuthn, t.arg)
       \/ /\ idb.webAuthn = "undefined"
          /\ StartLogin(t, [t EXCEPT !.got = "undefined"])
       \/ StartLogin(t, [t EXCEPT !.got = "read failed"])

\* await toWebAuthnKey LOGIN (lines 97-102), then get(passkeyNameStorageKey) is called.
Login(t) ==
    /\ t.pc = "p_login"
    /\ UNCHANGED <<kernelClient, kernelAccount, idb, fresh, provider>>
    /\ \/ \E k \in Keys : Suspend(t, [t EXCEPT !.pc = "p_getname", !.key = k])
       \/ StartRegisterPath(t, t)

\* await get(passkeyNameStorageKey) (line 104) and the test of line 105.
GetName(t) ==
    /\ t.pc = "p_getname"
    /\ UNCHANGED <<kernelClient, kernelAccount, idb, fresh, provider>>
    /\ \/ /\ idb.passkeyName = "undefined"
          /\ Suspend(t, [t EXCEPT !.pc = "p_setname_login"])
       \/ /\ idb.passkeyName # "undefined"
          /\ Suspend(t, [t EXCEPT !.pc = "c_setkey"])
       \/ StartRegisterPath(t, t)

\* await set(passkeyNameStorageKey, displayName) (line 106); the key is
\* returned and connect calls set(webAuthnStorageKey, webAuthnKey).
SetNameLogin(t) ==
    /\ t.pc = "p_setname_login"
    /\ UNCHANGED <<kernelClient, kernelAccount, fresh, provider>>
    /\ \/ /\ idb' = [idb EXCEPT !.passkeyName = displayName]
          /\ Suspend(t, [t EXCEPT !.pc = "c_setkey", !.wrote = @ \cup {"set passkeyName"}])
       \/ /\ UNCHANGED idb
          /\ StartRegisterPath(t, t)

\* await set(passkeyNameStorageKey, username) (line 112), then toWebAuthnKey
\* in REGISTER mode is called; a failed write is not a cancellation (line 124).
SetNameRegister(t) ==
    /\ t.pc = "p_setname_reg"
    /\ UNCHANGED <<kernelClient, kernelAccount, fresh, provider>>
    /\ \/ /\ idb' = [idb EXCEPT !.passkeyName = username]
          /\ Suspend(t, [t EXCEPT !.pc = "p_register", !.regs = @ + 1,
                                         !.wrote = @ \cup {"set passkeyName"}])
       \/ /\ UNCHANGED idb
          /\ Return(t, t, FALSE, "PasskeyFailed", NoRet)

\* await toWebAuthnKey REGISTER (lines 114-119) and the catch of lines 120-125.
Register(t) ==
    /\ t.pc = "p_register"
    /\ UNCHANGED <<kernelClient, kernelAccount, idb, fresh, provider>>
    /\ \/ \E k \in Keys : Suspend(t, [t EXCEPT !.pc = "c_setkey", !.key = k])
       \/ Return(t, t, FALSE, "UserRejected", NoRet)
       \/ Return(t, t, FALSE, "PasskeyFailed", NoRet)

\* await set(webAuthnStorageKey, webAuthnKey) (line 162), then the build starts (line 165).
SetKey(t) ==
    /\ t.pc = "c_setkey"
    /\ UNCHANGED <<kernelClient, kernelAccount, fresh, provider>>
    /\ \/ /\ idb' = [idb EXCEPT !.webAuthn = t.key]
          /\ StartBuild(t, [t EXCEPT !.wrote = @ \cup {"set webAuthn"}],
                        t.key, t.arg)
       \/ /\ UNCHANGED idb
          /\ Return(t, t, FALSE, "StorageError", NoRet)

(***************************************************************************)
(* disconnect (lines 170-176)                                              *)
(***************************************************************************)
CallDisconnect ==
    /\ HasFreeSlot
    /\ kernelClient' = NoClient
    /\ kernelAccount' = NoAccount
    /\ Spawn([NewTask("disconnect", "undefined", "d_del1") EXCEPT !.mut = {"cleared"}])
    /\ fresh' = FALSE
    /\ UNCHANGED provider
    /\ UNCHANGED idb

\* await del(webAuthnStorageKey) (line 173)
DisconnectDel1(t) ==
    /\ t.pc = "d_del1"
    /\ UNCHANGED <<kernelClient, kernelAccount, fresh, provider>>
    /\ \/ /\ idb' = [idb EXCEPT !.webAuthn = "undefined"]
          /\ Suspend(t, [t EXCEPT !.pc = "d_del2", !.wrote = @ \cup {"del webAuthn"}])
       \/ /\ UNCHANGED idb
          /\ Return(t, t, FALSE, "StorageError", NoRet)

\* await del(passkeyNameStorageKey) (line 174), then the disconnect event (line 175)
DisconnectDel2(t) ==
    /\ t.pc = "d_del2"
    /\ UNCHANGED <<kernelClient, kernelAccount, fresh, provider>>
    /\ \/ /\ idb' = [idb EXCEPT !.passkeyName = "undefined"]
          /\ Return(t, [t EXCEPT !.wrote = @ \cup {"del passkeyName"},
                                        !.evs = Append(@, DisconnectEvent)],
                    TRUE, "none", NoRet)
       \/ /\ UNCHANGED idb
          /\ Return(t, t, FALSE, "StorageError", NoRet)

(***************************************************************************)
(* reconnect (lines 178-186)                                               *)
(***************************************************************************)
CallReconnect ==
    /\ HasFreeSlot
    /\ Spawn(NewTask("reconnect", "undefined", "r_get"))
    /\ fresh' = FALSE
    /\ UNCHANGED provider
    /\ UNCHANGED <<kernelClient, kernelAccount, idb>>

\* Bug variant for C9: a missing credential falls back to the ceremony, as
\* connect does, instead of throwing.
ReconnectGet_FallsBack(t) ==
    /\ t.pc = "r_get"
    /\ UNCHANGED <<kernelClient, kernelAccount, idb, fresh, provider>>
    /\ \/ /\ idb.webAuthn # "undefined"
          /\ StartBuild(t, [t EXCEPT !.got = idb.webAuthn], idb.webAuthn, "undefined")
       \/ /\ idb.webAuthn = "undefined"
          /\ StartLogin(t, [t EXCEPT !.got = "undefined"])
       \/ Return(t, [t EXCEPT !.got = "read failed"], FALSE, "StorageError", NoRet)

\* await get(webAuthnStorageKey) (line 179) and the test of line 180.
ReconnectGet(t) ==
    /\ t.pc = "r_get"
    /\ UNCHANGED <<kernelClient, kernelAccount, idb, fresh, provider>>
    /\ \/ /\ idb.webAuthn # "undefined"
          /\ StartBuild(t, [t EXCEPT !.got = idb.webAuthn], idb.webAuthn, "undefined")
       \/ /\ idb.webAuthn = "undefined"
          /\ Return(t, [t EXCEPT !.got = "undefined"], FALSE, "NoStoredCredential", NoRet)
       \/ Return(t, [t EXCEPT !.got = "read failed"], FALSE, "StorageError", NoRet)

(***************************************************************************)
(* switchChain (lines 243-257)                                             *)
(***************************************************************************)
\* Bug variant for C5: the session is discarded (lines 248-249) before the
\* chain is looked up (lines 244-247).
CallSwitchChain_ClearsFirst(chainId) ==
    /\ fresh' = FALSE
    /\ UNCHANGED provider
    /\ UNCHANGED idb
    /\ kernelClient' = NoClient
    /\ kernelAccount' = NoAccount
    /\ \/ /\ FindChain(chainId) = "undefined"
          /\ UNCHANGED tasks
          /\ UNCHANGED hostView
          /\ last' = Completed([NewTask("switchChain", chainId, "idle") EXCEPT !.mut = {"cleared"}],
                               FALSE, "UnsupportedChain", NoRet)
       \/ /\ FindChain(chainId) # "undefined"
          /\ HasFreeSlot
          /\ Spawn([NewTask("switchChain", chainId, "w_get") EXCEPT !.mut = {"cleared"}])

CallSwitchChain(chainId) ==
    /\ fresh' = FALSE
    /\ UNCHANGED provider
    /\ UNCHANGED idb
    /\ \/ /\ FindChain(chainId) = "undefined"
          /\ UNCHANGED <<kernelClient, kernelAccount, tasks>>
          /\ UNCHANGED hostView
          /\ last' = Completed(NewTask("switchChain", chainId, "idle"), FALSE,
                               "UnsupportedChain", NoRet)
       \/ /\ FindChain(chainId) # "undefined"
          /\ HasFreeSlot
          /\ kernelClient' = NoClient
          /\ kernelAccount' = NoAccount
          /\ Spawn([NewTask("switchChain", chainId, "w_get") EXCEPT !.mut = {"cleared"}])

\* await get(webAuthnStorageKey) (line 252) and the test of line 253.
SwitchGet(t) ==
    /\ t.pc = "w_get"
    /\ UNCHANGED <<kernelClient, kernelAccount, idb, fresh, provider>>
    /\ \/ /\ idb.webAuthn # "undefined"
          /\ StartBuild(t, [t EXCEPT !.got = idb.webAuthn], idb.webAuthn, t.arg)
       \/ /\ idb.webAuthn = "undefined"
          /\ Return(t, [t EXCEPT !.got = "undefined"], FALSE, "NoStoredCredential", NoRet)
       \/ Return(t, [t EXCEPT !.got = "read failed"], FALSE, "StorageError", NoRet)

(***************************************************************************)
(* onDisconnect (lines 271-275)                                            *)
(***************************************************************************)
\* Bug variant for C29: onDisconnect forgets the credential as disconnect does.
OnDisconnect_ForgetsCredential ==
    /\ kernelClient' = NoClient
    /\ kernelAccount' = NoAccount
    /\ hostView' = "disconnect"
    /\ last' = Completed([NewTask("onDisconnect", "undefined", "idle")
                            EXCEPT !.mut = {"cleared"}, !.evs = <<DisconnectEvent>>],
                         TRUE, "none", NoRet)
    /\ fresh' = FALSE
    /\ UNCHANGED provider
    /\ idb' = [webAuthn |-> "undefined", passkeyName |-> "undefined"]
    /\ UNCHANGED tasks

OnDisconnect ==
    /\ kernelClient' = NoClient
    /\ kernelAccount' = NoAccount
    /\ hostView' = "disconnect"
    /\ last' = Completed([NewTask("onDisconnect", "undefined", "idle")
                            EXCEPT !.mut = {"cleared"}, !.evs = <<DisconnectEvent>>],
                         TRUE, "none", NoRet)
    /\ fresh' = FALSE
    /\ UNCHANGED provider
    /\ UNCHANGED <<idb, tasks>>

(***************************************************************************)
(* onAccountsChanged (lines 259-265) and onChainChanged (lines 267-269):   *)
(* callbacks that emit and touch nothing else.                             *)
(***************************************************************************)
AccountsChangeEvent(accounts) ==
    [type |-> "change", accounts |-> accounts, chainId |-> "undefined"]

OnAccountsChanged(accounts) ==
    LET ev == IF Len(accounts) = 0 THEN DisconnectEvent ELSE AccountsChangeEvent(accounts)
    IN /\ last' = Completed([NewTask("onAccountsChanged",
                                     IF Len(accounts) = 0 THEN "no accounts" ELSE "accounts",
                                     "idle") EXCEPT !.evs = <<ev>>],
                            TRUE, "none", NoRet)
       /\ hostView' = HostSees(hostView, <<ev>>)
       /\ fresh' = FALSE
       /\ UNCHANGED <<kernelClient, kernelAccount, idb, tasks, provider>>

OnChainChanged(chainId) ==
    /\ last' = Completed([NewTask("onChainChanged", chainId, "idle")
                            EXCEPT !.evs = <<ChangeEvent(chainId)>>],
                         TRUE, "none", NoRet)
    /\ hostView' = HostSees(hostView, <<ChangeEvent(chainId)>>)
    /\ fresh' = FALSE
    /\ UNCHANGED <<kernelClient, kernelAccount, idb, tasks, provider>>

(***************************************************************************)
(* getChainId (lines 192-196) and isAuthorized (lines 237-241)             *)
(***************************************************************************)
CallGetChainId ==
    /\ fresh' = FALSE
    /\ UNCHANGED <<kernelClient, kernelAccount, idb, tasks, provider>>
    /\ UNCHANGED hostView
    /\ last' = IF GetChainId = "throws"
               THEN Completed(NewTask("getChainId", "undefined", "idle"), FALSE,
                              "NotInitialized", NoRet)
               ELSE Completed(NewTask("getChainId", "undefined", "idle"), TRUE, "none",
                              [accounts |-> <<>>, chainId |-> GetChainId])

\* Bug variant for C16: the probe answers from the store alone.
CallIsAuthorized_StoreOnly ==
    /\ fresh' = FALSE
    /\ UNCHANGED <<kernelClient, kernelAccount, idb, provider>>
    /\ HasFreeSlot
    /\ Spawn(NewTask("isAuthorized", "undefined", "a_get"))

\* Line 238: with a session the answer is true at once; otherwise the store
\* is read.
CallIsAuthorized ==
    /\ fresh' = FALSE
    /\ UNCHANGED <<kernelClient, kernelAccount, idb, provider>>
    /\ \/ /\ HasSession
          /\ UNCHANGED tasks
          /\ UNCHANGED hostView
          /\ last' = Completed(NewTask("isAuthorized", "undefined", "idle"), TRUE, "none",
                               [authorized |-> TRUE])
       \/ /\ ~HasSession
          /\ HasFreeSlot
          /\ Spawn(NewTask("isAuthorized", "undefined", "a_get"))

\* await get(webAuthnStorageKey) (line 239) and the return of line 240.
AuthorizedGet(t) ==
    /\ t.pc = "a_get"
    /\ UNCHANGED <<kernelClient, kernelAccount, idb, fresh, provider>>
    /\ \/ Return(t, [t EXCEPT !.got = idb.webAuthn], TRUE, "none",
                 [authorized |-> idb.webAuthn # "undefined"])
       \/ Return(t, [t EXCEPT !.got = "read failed"], FALSE, "StorageError", NoRet)

(***************************************************************************)
(* getStoredPasskeyName (src/utils/explorer-links.ts, lines 124-135), the   *)
(* reader of the display name used by usePasskeyName.                      *)
(***************************************************************************)
\* get(key) on the store: idb holds the connector's two keys, and nothing
\* writes any other key.
IdbGet(key) ==
    CASE key = webAuthnStorageKey -> idb.webAuthn
      [] key = passkeyNameStorageKey -> idb.passkeyName
      [] OTHER -> "undefined"

\* The key the reader looks up (line 126).
ReaderStorageKey(pid) == <<"zerodev-passkey-name-", pid>>

\* Its one await is the read, and what it returns depends on the store at
\* the read alone, so call and read are one step: storedName || null, and
\* null when the read rejects (lines 127-133).
GetStoredPasskeyName(pid) ==
    /\ UNCHANGED <<kernelClient, kernelAccount, idb, tasks, fresh, provider, hostView>>
    /\ LET rec == NewTask("getStoredPasskeyName", "undefined", "idle")
           storedName == IdbGet(ReaderStorageKey(pid))
       IN \/ last' = Completed([rec EXCEPT !.got = storedName], TRUE, "none",
                               [name |-> IF storedName = "undefined" THEN "null"
                                         ELSE storedName])
          \/ last' = Completed([rec EXCEPT !.got = "read failed"], TRUE, "none",
                               [name |-> "null"])

(***************************************************************************)
(* getProvider and the provider's request (lines 198-235).  The request    *)
(* closure reads kernelClient and kernelAccount of the connector each time *)
(* it names them: at line 208, and again after each await (lines 226, 228).*)
(***************************************************************************)
CallGetProvider ==
    /\ fresh' = FALSE
    /\ UNCHANGED <<kernelClient, kernelAccount, idb, tasks>>
    /\ \/ /\ HasSession
          /\ provider' = TRUE
          /\ UNCHANGED hostView
          /\ last' = Completed(NewTask("getProvider", "undefined", "idle"), TRUE, "none", NoRet)
       \/ /\ ~HasSession
          /\ UNCHANGED provider
          /\ UNCHANGED hostView
          /\ last' = Completed(NewTask("getProvider", "undefined", "idle"), FALSE,
                               "NotConnected", NoRet)

\* Bug variant for C18: the request does not test for a session (line 208).
CallRequest_NoSessionTest(params) ==
    /\ provider
    /\ UNCHANGED <<kernelClient, kernelAccount, idb, fresh, provider>>
    /\ LET rec == NewTask("request", params, "idle")
       IN \/ /\ params = "other method"
             /\ UNCHANGED tasks
             /\ UNCHANGED hostView
             /\ last' = Completed(rec, TRUE, "none", NoRet)
          \/ /\ params \in {"no params", "no to", "no data"}
             /\ UNCHANGED tasks
             /\ UNCHANGED hostView
             /\ last' = Completed([rec EXCEPT !.did = <<"validate">>], FALSE,
                                  "MissingParams", NoRet)
          \/ /\ params = "valid"
             /\ HasFreeSlot
             /\ Spawn([rec EXCEPT !.pc = "q_encode", !.did = <<"validate", "encode">>])

\* Bug variant for C19: the call is encoded before the parameters are tested.
CallRequest_EncodesFirst(params) ==
    /\ provider
    /\ UNCHANGED <<kernelClient, kernelAccount, idb, fresh, provider>>
    /\ LET rec == NewTask("request", params, "idle")
       IN \/ /\ params = "other method"
             /\ UNCHANGED tasks
             /\ UNCHANGED hostView
             /\ last' = Completed(rec, TRUE, "none", NoRet)
          \/ /\ params # "other method" /\ ~HasSession
             /\ UNCHANGED tasks
             /\ UNCHANGED hostView
             /\ last' = Completed(rec, FALSE, "NotConnected", NoRet)
          \/ /\ params # "other method" /\ HasSession
             /\ HasFreeSlot
             /\ Spawn([rec EXCEPT !.pc = "q_encode", !.did = <<"encode">>])

\* request(args) on a provider object, up to its first await: the switch of
\* line 206, the session test of lines 208-209, the parameter tests of lines
\* 211-215, and the call of encodeCalls (line 218) on kernelClient.account,
\* whose credential and chain the task keeps in key and chain.
CallRequest(params) ==
    /\ provider
    /\ UNCHANGED <<kernelClient, kernelAccount, idb, fresh, provider>>
    /\ LET rec == NewTask("request", params, "idle")
       IN \/ /\ params = "other method"
             /\ UNCHANGED tasks
             /\ UNCHANGED hostView
             /\ last' = Completed(rec, TRUE, "none", NoRet)
          \/ /\ params # "other method" /\ ~HasSession
             /\ UNCHANGED tasks
             /\ UNCHANGED hostView
             /\ last' = Completed(rec, FALSE, "NotConnected", NoRet)
          \/ /\ params \in {"no params", "no to", "no data"} /\ HasSession
             /\ UNCHANGED tasks
             /\ UNCHANGED hostView
             /\ last' = Completed([rec EXCEPT !.did = <<"validate">>], FALSE,
                                  "MissingParams", NoRet)
          \/ /\ params = "valid" /\ HasSession
             /\ HasFreeSlot
             /\ Spawn([rec EXCEPT !.pc = "q_encode", !.did = <<"validate", "encode">>,
                                  !.key = kernelClient.account.address[2],
                                  !.chain = kernelClient.chain])

\* await encodeCalls (line 218), then kernelClient.sendUserOperation is
\* called (line 226): a TypeError if kernelClient is undefined by now.
EncodeCalls(t) ==
    /\ t.pc = "q_encode"
    /\ UNCHANGED <<kernelClient, kernelAccount, idb, fresh, provider>>
    /\ \/ Return(t, t, FALSE, "EncodeFailed", NoRet)
       \/ /\ kernelClient = NoClient
          /\ Return(t, t, FALSE, "TypeError", NoRet)
       \/ /\ kernelClient # NoClient
          /\ Suspend(t, [t EXCEPT !.pc = "q_send", !.did = Append(@, "send")])

\* await sendUserOperation (line 226), then
\* kernelClient.waitForUserOperationReceipt is called (line 228).
SendUserOperation(t) ==
    /\ t.pc = "q_send"
    /\ UNCHANGED <<kernelClient, kernelAccount, idb, fresh, provider>>
    /\ \/ Return(t, t, FALSE, "SendFailed", NoRet)
       \/ \E h \in UserOps :
             \/ /\ kernelClient = NoClient
                /\ Return(t, [t EXCEPT !.userOp = h], FALSE, "TypeError", NoRet)
             \/ /\ kernelClient # NoClient
                /\ Suspend(t, [t EXCEPT !.pc = "q_wait", !.userOp = h,
                                               !.did = Append(@, "wait")])

\* await waitForUserOperationReceipt (line 228) and the return of line 230.
WaitForUserOperationReceipt(t) ==
    /\ t.pc = "q_wait"
    /\ UNCHANGED <<kernelClient, kernelAccount, idb, fresh, provider>>
    /\ \/ Return(t, t, FALSE, "WaitFailed", NoRet)
       \/ Return(t, t, TRUE, "none", [transactionHash |-> TransactionHash(t.userOp)])

Step(t) ==
    \/ BuildAccount(t)
    \/ SetupGet(t)
    \/ SetupDel1(t)
    \/ SetupDel2(t)
    \/ ConnectGet(t)
    \/ Login(t)
    \/ GetName(t)
    \/ SetNameLogin(t)
    \/ SetNameRegister(t)
    \/ Register(t)
    \/ SetKey(t)
    \/ DisconnectDel1(t)
    \/ DisconnectDel2(t)
    \/ ReconnectGet(t)
    \/ SwitchGet(t)

Next ==
    \/ Reload
    \/ CallSetup
    \/ \E chainId \in ConnectArgs : CallConnect(chainId)
    \/ CallDisconnect
    \/ CallReconnect
    \/ \E chainId \in SwitchArgs : CallSwitchChain(chainId)
    \/ OnDisconnect
    \/ \E t \in BagToSet(tasks) : Step(t)

Spec == Init /\ [][Next]_vars

(***************************************************************************)
(* The connector together with its read-only operations, its callbacks and *)
(* the provider: queries and provider requests interleave with each other  *)
(* and with the connector calls, of which MaxCallsBesideQueries may be in  *)
(* flight.                                                                 *)
(***************************************************************************)
QueryStep(t) ==
    \/ AuthorizedGet(t)
    \/ EncodeCalls(t)
    \/ SendUserOperation(t)
    \/ WaitForUserOperationReceipt(t)

\* The connector calls in flight.
CallsInFlight ==
    LET calls == {t \in BagToSet(tasks) : t.op \notin {"isAuthorized", "request"}}
    IN BagCardinality([t \in calls |-> tasks[t]])

ConnectorCall ==
    \/ CallSetup
    \/ \E chainId \in ConnectArgs : CallConnect(chainId)
    \/ CallDisconnect
    \/ CallReconnect
    \/ \E chainId \in SwitchArgs : CallSwitchChain(chainId)

NextQueries ==
    \/ Reload
    \/ CallsInFlight < MaxCallsBesideQueries /\ ConnectorCall
    \/ OnDisconnect
    \/ \E t \in BagToSet(tasks) : Step(t)
    \/ \E accounts \in AccountsArgs : OnAccountsChanged(accounts)
    \/ \E chainId \in ChainIds : OnChainChanged(chainId)
    \/ CallGetChainId
    \/ CallIsAuthorized
    \/ GetStoredPasskeyName(projectId)
    \/ CallGetProvider
    \/ \E params \in RequestArgs : CallRequest(params)
    \/ \E t \in BagToSet(tasks) : QueryStep(t)

SpecQueries == Init /\ [][NextQueries]_vars

(***************************************************************************)
(* The claims                                                              *)
(***************************************************************************)

\* C1: in every state another task or the caller can observe, the connector
\* holds a client if and only if it holds an account.
C1_SessionPair == (kernelClient # NoClient) <=> (kernelAccount # NoAccount)

\* A connect that returned without reading the store: the short circuit of
\* lines 148-154.
ShortCircuited == last.op = "connect" /\ last.ok /\ last.got = "unread"

\* C2: a connect made while a session exists returns the session's account
\* address and the session's chain id, whatever chainId it is given.
C2_IdempotentConnect ==
    ShortCircuited =>
        last.ret = [accounts |-> <<kernelAccount.address>>, chainId |-> kernelClient.chain]

\* What a call has done that C3 forbids once a credential was read: started
\* a ceremony, or written the store.
UsedProvider(rec) == rec.logins > 0 \/ rec.regs > 0 \/ rec.wrote # {}

\* C3: a connect starts a ceremony or writes the store only if it found no
\* session when called and its read of the store gave no credential (the key
\* was absent or the read failed); a connect that found a session returns
\* without a ceremony and without a write.
C3_CeremonyOnlyWithoutCredential ==
    /\ \A t \in BagToSet(tasks) :
          (t.op = "connect" /\ UsedProvider(t)) => t.got \in {"undefined", "read failed"}
    /\ (last.op = "connect" /\ UsedProvider(last)) => last.got \in {"undefined", "read failed"}
    /\ ShortCircuited => (HasSession /\ ~UsedProvider(last))

\* C3's case: a connect read a stored credential and built the session from it.
C3_Witness ==
    /\ last.op = "connect" /\ last.ok
    /\ last.got \in Keys
    /\ HasSession /\ kernelAccount.address = AddressOf(last.got)

\* C4: when disconnect has completed there is no session, the store holds
\* neither the credential nor the name, the call emitted exactly one
\* disconnect event, and isAuthorized() is false.
C4_DisconnectClears ==
    (last.op = "disconnect" /\ last.ok) =>
        /\ kernelAccount = NoAccount /\ kernelClient = NoClient
        /\ GetAccounts = <<>>
        /\ idb = [webAuthn |-> "undefined", passkeyName |-> "undefined"]
        /\ last.evs = <<DisconnectEvent>>
        /\ ~IsAuthorized

\* C5: a switchChain to a chain that is not configured fails with the
\* unsupported-chain error, and that step changes neither the session nor
\* the store nor any call in flight, and emits no event; no switchChain
\* with such a chain gets any further.
C5_UnsupportedChainNoEffect ==
    [][/\ (last'.op = "switchChain" /\ last'.arg \notin ChainIds) =>
             /\ ~last'.ok /\ last'.err = "UnsupportedChain"
             /\ last'.evs = <<>>
             /\ UNCHANGED <<kernelClient, kernelAccount, idb, tasks>>
       /\ \A t \in BagToSet(tasks') : t.op = "switchChain" => t.arg \in ChainIds]_vars

\* C5's case: the unsupported switchChain was made while a session exists.
C5_Witness ==
    /\ last.op = "switchChain" /\ last.err = "UnsupportedChain"
    /\ HasSession /\ idb.webAuthn \in Keys

C7_SwitchChainFailureDisconnects ==
    (last.op = "switchChain" /\ last.err \in {"NoStoredCredential", "BuildFailed"}) =>
        /\ kernelAccount = NoAccount /\ kernelClient = NoClient
        /\ GetAccounts = <<>>

\* C8: a connect given a chain id that is not configured fails and creates
\* no session.
C8_ConnectUnsupportedChainFails ==
    (last.op = "connect" /\ last.arg \notin ChainIds \cup {"undefined"}) =>
        ~last.ok /\ last.mut = {}

\* C9: a reconnect whose read finds no credential fails with the
\* no-stored-credential error, having started no ceremony, written nothing,
\* assigned no account or client and emitted nothing; and no reconnect in
\* flight has started a ceremony or written the store.
C9_ReconnectWithoutCredential ==
    /\ (last.op = "reconnect" /\ last.got = "undefined") =>
          /\ ~last.ok /\ last.err = "NoStoredCredential"
          /\ ~UsedProvider(last)
          /\ last.mut = {} /\ last.evs = <<>>
    /\ \A t \in BagToSet(tasks) : t.op = "reconnect" => ~UsedProvider(t)
    /\ (last.op = "reconnect" /\ last.ok) => last.got \in Keys

\* C9's case: a reconnect found the store empty, with nothing else in flight.
C9_Witness ==
    /\ last.op = "reconnect" /\ last.got = "undefined" /\ last.err = "NoStoredCredential"
    /\ idb.webAuthn = "undefined" /\ tasks = EmptyBag

\* C10: when a reconnect that read a stored credential has failed, the
\* store no longer holds the credential.
C10_FailedReconnectDeletesCredential ==
    (last.op = "reconnect" /\ ~last.ok /\ last.got \in Keys) => idb.webAuthn = "undefined"

\* C11: setup never rejects, whatever fails; and when its restoration failed
\* (the read failed, or a build step threw) the store holds neither the
\* credential nor the name, the connector holds no account and no client,
\* and the call emitted no connect event.
C11_SetupNeverThrows ==
    last.op = "setup" =>
        /\ last.ok
        /\ (last.got = "read failed" \/ "del webAuthn" \in last.wrote) =>
              /\ idb = [webAuthn |-> "undefined", passkeyName |-> "undefined"]
              /\ kernelAccount = NoAccount /\ kernelClient = NoClient
              /\ last.evs = <<>>

C13_CancelWritesNothing ==
    (last.op = "connect" /\ last.err = "UserRejected" /\ last.got = "undefined") =>
        /\ last.wrote = {}
        /\ idb = [webAuthn |-> "undefined", passkeyName |-> "undefined"]
        /\ kernelAccount = NoAccount /\ kernelClient = NoClient

\* C14: when a connect has failed in its build, the credential it built from
\* (read from the store, or obtained and written by this call) is in the
\* store, and the connector holds no account and no client.
C14_BuildFailureKeepsCredential ==
    (last.op = "connect" /\ last.err = "BuildFailed") =>
        /\ idb.webAuthn = last.key
        /\ kernelAccount = NoAccount /\ kernelClient = NoClient

\* A call of op that discards the session when it is called has just been
\* made: its task is new in the bag, suspended at its first await.
JustCalled(op, pc) ==
    \E u \in BagToSet(tasks') :
        /\ u.op = op /\ u.pc = pc /\ u.mut = {"cleared"}
        /\ CopiesIn(u, tasks') > CopiesIn(u, tasks)

\* C15: a step taken while a connect is in flight in which a disconnect or a
\* switchChain is called (lines 171-172, 248-249) or a switchChain's build
\* resumes (lines 60, 66) leaves kernelAccount and kernelClient as they were.
C15_ConnectSerialized ==
    [][((\E c \in BagToSet(tasks) : c.op = "connect")
          /\ (\/ JustCalled("disconnect", "d_del1")
              \/ JustCalled("switchChain", "w_get")
              \/ last'.op = "switchChain" /\ last'.got \in Keys))
        => UNCHANGED <<kernelAccount, kernelClient>>]_vars

\* A new task of op, suspended at pc, is in the bag: the call has just been made.
JustSpawned(op, pc) ==
    \E u \in BagToSet(tasks') :
        /\ u.op = op /\ u.pc = pc
        /\ CopiesIn(u, tasks') > CopiesIn(u, tasks)

\* C16: isAuthorized reads the store only if no session exists when it is
\* called; the step in which it returns changes neither the session nor the
\* store; it has started no ceremony, written nothing, assigned nothing and
\* emitted nothing; with a session it returns true without reading, and
\* otherwise it returns true exactly when the store holds a credential.
C16_IsAuthorizedProbe ==
    [][/\ JustSpawned("isAuthorized", "a_get") =>
             /\ ~HasSession
             /\ UNCHANGED <<kernelClient, kernelAccount, idb>>
       /\ last'.op = "isAuthorized" =>
             /\ UNCHANGED <<kernelClient, kernelAccount, idb>>
             /\ ~UsedProvider(last') /\ last'.mut = {} /\ last'.evs = <<>>
             /\ last'.got = "unread" => (HasSession /\ last'.ok /\ last'.ret.authorized)
             /\ last'.got \notin {"unread", "read failed"} =>
                   /\ last'.ok
                   /\ last'.got = idb.webAuthn
                   /\ last'.ret.authorized = (idb.webAuthn # "undefined")]_vars

\* C16's case: with no session and a credential stored, the probe has read
\* the store and answered true.
C16_Witness ==
    /\ last.op = "isAuthorized" /\ last.ok
    /\ last.got \in Keys /\ last.ret.authorized
    /\ ~HasSession

\* C17: getChainId() does not fail; it returns the session's chain when a
\* session exists and chains[0] otherwise.
C17_GetChainIdDefaults ==
    last.op = "getChainId" =>
        /\ last.ok
        /\ last.ret.chainId = IF HasSession THEN kernelClient.chain ELSE Chains[1]

\* C18: getProvider() called without a session fails with the not-connected
\* error and hands out nothing; an eth_sendTransaction request invoked
\* without a session fails at once with the not-connected error, having
\* validated, encoded and submitted nothing, and never gets to an await.
C18_NotConnected ==
    [][~HasSession =>
          /\ last'.op = "getProvider" =>
                (~last'.ok /\ last'.err = "NotConnected" /\ UNCHANGED provider)
          /\ (last'.op = "request" /\ last'.arg # "other method" /\ UNCHANGED tasks) =>
                (~last'.ok /\ last'.err = "NotConnected" /\ last'.did = <<>>)
          /\ ~JustSpawned("request", "q_encode")]_vars

\* C18's case: a provider object was obtained, and its request was invoked
\* while a switchChain was rebuilding the session.
C18_Witness ==
    /\ provider
    /\ last.op = "request" /\ last.err = "NotConnected"
    /\ \E t \in BagToSet(tasks) : t.op = "switchChain"

\* The steps of an eth_sendTransaction request, in the order of lines 211-228.
RequestSteps == <<"validate", "encode", "send", "wait">>

\* C19: a request in flight has started a prefix of validate, encode, send,
\* wait, in that order and each once; a request that returned has done all
\* four and returns the transaction hash of the receipt of the user
\* operation it submitted; a request with missing parameters fails having
\* encoded and submitted nothing.
C19_RequestOrder ==
    /\ \A t \in BagToSet(tasks) :
          t.op = "request" =>
             /\ t.arg = "valid"
             /\ t.did = SubSeq(RequestSteps, 1, CASE t.pc = "q_encode" -> 2
                                                  [] t.pc = "q_send" -> 3
                                                  [] t.pc = "q_wait" -> 4)
    /\ (last.op = "request" /\ last.arg # "other method") =>
          /\ \E n \in 0..4 : last.did = SubSeq(RequestSteps, 1, n)
          /\ last.ok =>
                /\ last.arg = "valid"
                /\ last.did = RequestSteps
                /\ last.userOp \in UserOps
                /\ last.ret = [transactionHash |-> TransactionHash(last.userOp)]
          /\ last.arg # "valid" =>
                /\ ~last.ok
                /\ last.err \in {"NotConnected", "MissingParams"}
                /\ last.did \in {<<>>, <<"validate">>}
                /\ last.userOp = "undefined"

\* C19's case: a request has returned the transaction hash of its user
\* operation while another request is in flight.
C19_Witness ==
    /\ last.op = "request" /\ last.arg = "valid" /\ last.ok
    /\ last.ret.transactionHash = TransactionHash(last.userOp)
    /\ \E t \in BagToSet(tasks) : t.op = "request" /\ t.userOp \notin {"undefined", last.userOp}

\* C20: a connect whose register ceremony has started has attempted exactly
\* one login before it, and that login failed: the call holds no credential
\* from a login (key is what the login ceremony resolved to).
C20_LoginBeforeRegister ==
    \A t \in BagToSet(tasks) :
        (t.op = "connect" /\ t.pc = "p_register") =>
            /\ t.regs = 1 /\ t.logins = 1
            /\ t.key = "undefined"

\* The store writes of createPasskeyOwner and connect, seen as steps: task t
\* at pc becomes a task at pc2 in this step.
Moves(t, pc, pc2) ==
    /\ t.op = "connect" /\ t.pc = pc
    /\ CopiesIn(t, tasks') < CopiesIn(t, tasks)
    /\ \E u \in BagToSet(tasks') :
          /\ u.op = "connect" /\ u.pc = pc2
          /\ CopiesIn(u, tasks') > CopiesIn(u, tasks)

\* C21: the step of the login path that writes the default name is taken
\* only with no name in the store; the step of the register path that
\* starts the register ceremony leaves the registration's name in the
\* store; and the step in which connect writes the credential and starts
\* the build leaves the credential and a name in the store.
C21_DisplayNamePolicy ==
    [][\A t \in BagToSet(tasks) :
          /\ Moves(t, "p_setname_login", "c_setkey") =>
                (idb.passkeyName = "undefined" /\ idb'.passkeyName = displayName)
          /\ Moves(t, "p_getname", "c_setkey") => UNCHANGED idb
          /\ Moves(t, "p_setname_reg", "p_register") => idb'.passkeyName = username
          /\ Moves(t, "c_setkey", "b_account") =>
                (idb'.webAuthn = t.key /\ idb'.passkeyName # "undefined")]_vars

\* C22: a connect that found the store empty, registered a passkey and
\* succeeded leaves the credential in the store together with the default
\* display name.
C22_FreshDeviceDefaultName ==
    (last.op = "connect" /\ last.ok /\ last.got = "undefined" /\ last.regs > 0) =>
        idb = [webAuthn |-> last.key, passkeyName |-> displayName]

\* C23: a connect whose read of the credential failed has started the login
\* ceremony, as a connect that found no credential does; it does not
\* reject with the storage error unless a later write of the store fails.
C23_ReadFailureFallsBack ==
    /\ \A t \in BagToSet(tasks) :
          (t.op = "connect" /\ t.got = "read failed") => t.logins = 1
    /\ (last.op = "connect" /\ last.got = "read failed") =>
          /\ last.logins = 1
          /\ last.err = "StorageError" => last.key \in Keys

\* C23's case: a connect whose read failed obtained a credential from the
\* provider and built the session from it.
C23_Witness ==
    /\ last.op = "connect" /\ last.ok /\ last.got = "read failed"
    /\ last.key \in Keys
    /\ GetAccounts = <<AddressOf(last.key)>>

\* C24: with no call in flight, a session implies that a credential is in
\* the store.
C24_SessionHasCredential ==
    (tasks = EmptyBag /\ HasSession) => idb.webAuthn # "undefined"

\* The operations and callbacks after which C25 compares the host's view
\* with the connector.
HostOps ==
    {"setup", "connect", "disconnect", "reconnect", "switchChain",
     "onAccountsChanged", "onChainChanged", "onDisconnect"}

\* C25: when an operation or callback has completed, the last connect or
\* disconnect event the host saw is a connect event if and only if the
\* connector holds a session.
C25_HostViewAgrees ==
    last.op \in HostOps => (hostView = "connect" <=> HasSession)

\* The client of the session whose account encoded request t's call data.
EncodingClient(t) ==
    [account |-> [address |-> AddressOf(t.key), chain |-> t.chain], chain |-> t.chain]

\* Request t resumes from the await at pc and calls the next client method,
\* suspending at pc2.
Resumes(t, pc, pc2) ==
    /\ t.op = "request" /\ t.pc = pc
    /\ CopiesIn(t, tasks') < CopiesIn(t, tasks)
    /\ \E u \in BagToSet(tasks') :
          /\ u.op = "request" /\ u.pc = pc2 /\ u.key = t.key /\ u.chain = t.chain
          /\ CopiesIn(u, tasks') > CopiesIn(u, tasks)

\* C26: a request calls sendUserOperation and waitForUserOperationReceipt
\* only on the client of the session whose account encoded its call data,
\* and a request that fails after its session was discarded fails with the
\* not-connected error, never with a TypeError.
C26_SameSessionThroughout ==
    [][/\ \A t \in BagToSet(tasks) :
             (Resumes(t, "q_encode", "q_send") \/ Resumes(t, "q_send", "q_wait")) =>
                 kernelClient = EncodingClient(t)
       /\ last'.op = "request" => last'.err # "TypeError"]_vars

\* The connect calls in flight that have started a ceremony.
ConnectsInCeremony ==
    LET cs == {t \in BagToSet(tasks) : t.op = "connect" /\ t.logins > 0}
    IN BagCardinality([t \in cs |-> tasks[t]])

\* C27: of the connect calls in flight at once, at most one has started an
\* authenticate/register sequence.
C27_OneCeremonyForOverlappingConnects == ConnectsInCeremony <= 1

\* C28: the step in which a reconnect succeeds while a session exists leaves
\* the session on its chain and returns that chain's id.
C28_ReconnectKeepsChain ==
    [][(last'.op = "reconnect" /\ last'.ok /\ HasSession) =>
          /\ kernelClient'.chain = kernelClient.chain
          /\ last'.ret.chainId = kernelClient.chain]_vars

C30_ReaderFindsStoredName ==
    (last.op = "getStoredPasskeyName" /\ last.got # "read failed") =>
        last.ret.name = IF idb.passkeyName = "undefined" THEN "null" ELSE idb.passkeyName

====
